---- MODULE Spec2Model ----
(***************************************************************************)
(* Model of bevy_replicon_action's event snapshot history buffer           *)
(* (src/src/event_snapshot.rs): EventSnapshots<E> with its admission       *)
(* checks, FIFO eviction, index sort and frontier cursor.                  *)
(*                                                                         *)
(* Numbers.  usize is modelled with a small width: indices range over      *)
(* 0..UsizeMax and `index + 1` overflows at UsizeMax (a release build      *)
(* wraps to 0, a debug build panics).  f64 timestamps are integers plus    *)
(* the value NaN, for which every comparison is false, as in IEEE 754.     *)
(* The receipt clock (SystemTime::now) is a non-decreasing variable, the   *)
(* assumption the code itself asserts at event_snapshot.rs:141; it may     *)
(* start before UNIX_EPOCH, where duration_since fails.                    *)
(***************************************************************************)
EXTENDS Integers, Sequences, FiniteSets

\* ---- bounds of the model ------------------------------------------------
MaxSize == 2           \* largest capacity given to with_capacity
MaxClock == 2          \* largest clock reading / event timestamp
MaxTick == 1           \* largest tick handed to insert
\* admitted events per run: enough to fill a buffer and evict once
MaxInserts == MaxSize + 1
MaxPos == 1            \* largest component value / distance

\* ---- values -------------------------------------------------------------
\* usize::MAX of the modelled (narrow) usize
UsizeMax == 2
\* f64::NAN: the one timestamp value that is unordered
NaN == -2
\* a clock reading earlier than UNIX_EPOCH
BeforeEpoch == -1

Indices == 0..UsizeMax
Timestamps == (0..MaxClock) \cup {NaN}
Ticks == 0..MaxTick
Clock == BeforeEpoch..MaxClock
Events == [index : Indices, timestamp : Timestamps]

\* f64 comparisons (PartialOrd): false whenever an operand is NaN
FGe(a, b) == a # NaN /\ b # NaN /\ a >= b
FLe(a, b) == a # NaN /\ b # NaN /\ a <= b
FLt(a, b) == a # NaN /\ b # NaN /\ a < b

VARIABLES
    deq,              \* EventSnapshots::deq, front first
    max_size,         \* EventSnapshots::max_size
    frontier_index,   \* EventSnapshots::frontier_index
    now,              \* the reading SystemTime::now() gives
    panicked,         \* the process aborted with a panic
    admitted,         \* history: the number of events admitted so far
    inorder,          \* history: only insert was called so far, and every
                      \* admitted event had a greater index and timestamp
                      \* than the event admitted before it
    finite            \* history: no admitted event had a NaN timestamp

\* distance culling (quick_lib/distance_culling.rs)
VARIABLES
    distance_map,       \* DistanceMap: canonical key -> DistanceAt
    map_changed,        \* distance_map.is_changed(), as distance_culling_system sees it
    server_tick,        \* ServerTick
    component,          \* entity -> value of its component C
    changed,            \* the entities with Changed<C> or Added<C>
    player_views,       \* the entities With<PlayerView>
    important,          \* the entities With<Importance<Distance>>
    visibility,         \* ConnectedClients: client id -> the entities visible to it
    culling_threshold,  \* DistanceCullingConfig::culling_threshold
    ran,                \* the systems of PostUpdate that ran in this frame
    inserted            \* history: calculate_distance_system inserted into
                        \* the DistanceMap in this frame

\* event ingestion (event_snapshot.rs, the two populate systems)
VARIABLES
    role,               \* "server" or "client": which system the plugin added
    snaps,              \* entity -> its EventSnapshots component
    owner,              \* entity -> NetworkEntity::client_id
    confirmed,          \* entity -> ConfirmHistory::last_tick
    events,             \* the events sent and not yet read, oldest first
    cursor,             \* the EventReader: how many events it has read
    read                \* history: the batch the last ingestion pass read

\* the frame (the schedules of the systems, event_snapshot.rs lines 229-246,
\* dev/game_server.rs lines 31-36)
VARIABLES
    schedule,           \* the schedule of the frame that is running
    frame_ran,          \* the systems and sets that ran in this frame
    consumer_schedule,  \* the schedule the consumer of the buffers is in
    consumed            \* history: entity -> how many events its buffer had
                        \* admitted at the consumer's last call

bufvars == <<deq, max_size, frontier_index, now, panicked, admitted, inorder, finite>>
cullvars == <<distance_map, map_changed, server_tick, component, changed,
              player_views, important, visibility, culling_threshold, ran,
              inserted>>
ingvars == <<role, snaps, owner, confirmed, events, cursor, read>>
framevars == <<schedule, frame_ran, consumer_schedule, consumed>>
othervars == <<cullvars, ingvars, framevars>>
vars == <<bufvars, othervars>>

\* the state of the parts a specification does not exercise
BufferIdle ==
    /\ deq = <<>>
    /\ max_size = 0
    /\ frontier_index = 0
    /\ now = 0
    /\ panicked = FALSE
    /\ admitted = 0
    /\ inorder = TRUE
    /\ finite = TRUE

FrameIdle ==
    /\ schedule = "PreUpdate"
    /\ frame_ran = {}
    /\ consumer_schedule = "Update"
    /\ consumed = <<>>

IngestionIdle ==
    /\ role = "server"
    /\ snaps = <<>>
    /\ owner = <<>>
    /\ confirmed = <<>>
    /\ events = <<>>
    /\ cursor = 0
    /\ read = <<>>

CullingIdle ==
    /\ distance_map = <<>>
    /\ map_changed = FALSE
    /\ server_tick = 0
    /\ component = <<>>
    /\ changed = {}
    /\ player_views = {}
    /\ important = {}
    /\ visibility = <<>>
    /\ culling_threshold = 0
    /\ ran = {}
    /\ inserted = FALSE

\* ---- EventSnapshot ------------------------------------------------------
\* EventSnapshot::new; seq is a history field, the admission number
NewSnapshot(event, received_timestamp, tick, seq) ==
    [event |-> event, received_timestamp |-> received_timestamp,
     tick |-> tick, seq |-> seq]

SnapIndex(s) == s.event.index
SnapTimestamp(s) == s.event.timestamp

\* ---- EventSnapshots: accessors -------------------------------------------
BufLen == Len(deq)
HasLatest == Len(deq) > 0
LatestSnapshot == deq[Len(deq)]

\* ---- EventSnapshots::insert ---------------------------------------------
ClockBeforeEpoch(t) == t < 0
IsClockSkew(event, received_timestamp) == FGe(event.timestamp, received_timestamp)
\* a tick check that is off by one
IsStaleTick_OffByOne(tick, latest_snap) == tick + 1 < latest_snap.tick
IsStaleTick(tick, latest_snap) == tick < latest_snap.tick
\* a timestamp check that lets an equal timestamp through
IsStaleTimestamp_Strict(event, latest_snap) == FLt(event.timestamp, SnapTimestamp(latest_snap))
IsStaleTimestamp(event, latest_snap) == FLe(event.timestamp, SnapTimestamp(latest_snap))
\* a frontier check that is off by one
IsBehindFrontier_OffByOne(event, frontier) == event.index + 1 < frontier
IsBehindFrontier(event, frontier) == event.index < frontier
\* a capacity check that lets the buffer grow one past its capacity
AtCapacity_OnePast(d, cap) == Len(d) > cap
AtCapacity(d, cap) == Len(d) >= cap

\* what insert returns: "Ok", or the error of the first check that fails,
\* in the order the code makes the checks
InsertError(event, tick) ==
    IF max_size = 0 THEN "ZeroSize"
    ELSE IF ClockBeforeEpoch(now) THEN "SystemTime"
    ELSE IF IsClockSkew(event, now) THEN "ClockSkew"
    ELSE IF HasLatest /\ IsStaleTick(tick, LatestSnapshot) THEN "StaleTick"
    ELSE IF HasLatest /\ IsStaleTimestamp(event, LatestSnapshot) THEN "StaleTimestamp"
    ELSE IF IsBehindFrontier(event, frontier_index) THEN "BehindFrontier"
    ELSE "Ok"

\* an eviction that pops the back of the buffer instead of the front
Evicted_PopBack(d, cap) == IF AtCapacity(d, cap) THEN SubSeq(d, 1, Len(d) - 1) ELSE d
Evicted(d, cap) == IF AtCapacity(d, cap) THEN Tail(d) ELSE d

\* history: the event continues a run of increasing indices and timestamps
Continues(event) ==
    IF HasLatest
    THEN /\ event.index > SnapIndex(LatestSnapshot)
         /\ FLt(SnapTimestamp(LatestSnapshot), event.timestamp)
    ELSE event.timestamp # NaN

Insert(event, tick) ==
    /\ ~panicked
    /\ admitted < MaxInserts
    /\ LET err == InsertError(event, tick) IN
        IF err = "Ok"
        THEN /\ deq' = Append(Evicted(deq, max_size),
                              NewSnapshot(event, now, tick, admitted + 1))
             /\ admitted' = admitted + 1
             /\ inorder' = (inorder /\ Continues(event))
             /\ finite' = (finite /\ event.timestamp # NaN)
        ELSE UNCHANGED <<deq, admitted, inorder, finite>>
    /\ UNCHANGED <<max_size, frontier_index, now, panicked, othervars>>

\* ---- EventSnapshots::frontier -------------------------------------------
\* Iterator::position: the first place whose index is >= frontier, 0 if none
RECURSIVE PositionFrom(_, _, _)
PositionFrom(d, frontier, i) ==
    IF i > Len(d) THEN 0
    ELSE IF SnapIndex(d[i]) >= frontier THEN i
    ELSE PositionFrom(d, frontier, i + 1)

Position(d, frontier) == PositionFrom(d, frontier, 1)

\* index + 1 in usize: on overflow a build with overflow checks (debug)
\* panics and a build without them (release) wraps
Overflows(i) == i + 1 > UsizeMax
WrappingSucc(i) == (i + 1) % (UsizeMax + 1)

Range(d, begin) == SubSeq(d, begin, Len(d))

\* the snapshots a frontier() call made in this state yields, in order
FrontierOut(d, frontier) ==
    IF Position(d, frontier) # 0 THEN Range(d, Position(d, frontier)) ELSE <<>>

Frontier ==
    /\ ~panicked
    /\ IF Position(deq, frontier_index) # 0
       THEN \/ /\ Overflows(SnapIndex(LatestSnapshot))
                /\ panicked' = TRUE
                /\ UNCHANGED frontier_index
            \/ /\ frontier_index' = WrappingSucc(SnapIndex(LatestSnapshot))
                /\ UNCHANGED panicked
       ELSE UNCHANGED <<frontier_index, panicked>>
    /\ inorder' = FALSE
    /\ UNCHANGED <<deq, max_size, now, admitted, finite, othervars>>

\* ---- EventSnapshots::sort_with_index ------------------------------------
\* slice::sort_by_key is a stable sort
RECURSIVE InsertByIndex(_, _)
InsertByIndex(s, d) ==
    IF d = <<>> THEN <<s>>
    ELSE IF SnapIndex(Head(d)) <= SnapIndex(s)
         THEN <<Head(d)>> \o InsertByIndex(s, Tail(d))
         ELSE <<s>> \o d

RECURSIVE SortByIndex(_)
SortByIndex(d) ==
    IF d = <<>> THEN <<>>
    ELSE InsertByIndex(d[Len(d)], SortByIndex(SubSeq(d, 1, Len(d) - 1)))

SortWithIndex ==
    /\ ~panicked
    /\ deq' = SortByIndex(deq)
    /\ inorder' = FALSE
    /\ UNCHANGED <<max_size, frontier_index, now, panicked, admitted, finite, othervars>>

\* ---- EventSnapshots::pop_front ------------------------------------------
PopFront ==
    /\ ~panicked
    /\ deq' = IF deq = <<>> THEN <<>> ELSE Tail(deq)
    /\ inorder' = FALSE
    /\ UNCHANGED <<max_size, frontier_index, now, panicked, admitted, finite, othervars>>

\* ---- the clock ----------------------------------------------------------
ClockAdvance ==
    /\ ~panicked
    /\ \E t \in Clock : t > now /\ now' = t
    /\ UNCHANGED <<deq, max_size, frontier_index, panicked, admitted, inorder, finite, othervars>>

\* ---- specification ------------------------------------------------------
\* EventSnapshots::with_capacity, in either build, at any clock reading
Init ==
    /\ deq = <<>>
    /\ frontier_index = 0
    /\ max_size \in 0..MaxSize
    /\ now \in Clock
    /\ panicked = FALSE
    /\ admitted = 0
    /\ inorder = TRUE
    /\ finite = TRUE
    /\ CullingIdle
    /\ IngestionIdle
    /\ FrameIdle

InsertCall == \E event \in Events, tick \in Ticks : Insert(event, tick)

Next ==
    \/ InsertCall
    \/ Frontier
    \/ SortWithIndex
    \/ PopFront
    \/ ClockAdvance

Spec == Init /\ [][Next]_vars

TypeOK ==
    /\ max_size \in 0..MaxSize
    /\ frontier_index \in Indices
    /\ now \in Clock
    /\ admitted \in 0..MaxInserts

\* debug_assert!(received_timestamp >= latest_snap.received_timestamp()):
\* with a clock that does not run backwards it never fires
ReceiptNotBeforeLatest == HasLatest => now >= LatestSnapshot.received_timestamp

\* ---- properties ---------------------------------------------------------
Min(a, b) == IF a <= b THEN a ELSE b
Held == {deq[i] : i \in DOMAIN deq}
\* the buffer holds its snapshots in the order they were admitted
AdmissionOrdered(d) == \A i, j \in DOMAIN d : i < j => d[i].seq < d[j].seq
\* the last step admitted a snapshot
Admits == admitted' = admitted + 1
\* the snapshot the last step admitted
Admitted == deq'[Len(deq')]
\* no held snapshot has the index usize::MAX
BelowMaxHeld(d) == \A i \in DOMAIN d : SnapIndex(d[i]) < UsizeMax

\* C1: in every reachable state of a buffer of capacity max_size, whatever
\* calls of insert, frontier, sort_with_index and pop_front led to it,
\* len() <= max_size.
C1_LenWithinCapacity == BufLen <= max_size

\* a full buffer of the largest capacity that has already evicted
C1_Witness == max_size = MaxSize /\ BufLen = max_size /\ admitted > max_size

\* C2: frontier_index never decreases: its value after every operation is
\* >= its value before.  Stated for the runs that admit only finite
\* timestamps, where it already fails.
C2_FrontierNeverDecreases ==
    [][finite' => frontier_index' >= frontier_index]_vars

\* C3: every snapshot a frontier() call yields has index() >= the value
\* frontier_index has when the call starts, in every reachable state.
\* Stated for the runs that admit only finite timestamps, on buffers that
\* hold no index of usize::MAX, where it already fails.
C3_YieldedAtOrAboveFrontier ==
    (finite /\ BelowMaxHeld(deq)) =>
    \A i \in DOMAIN FrontierOut(deq, frontier_index) :
        SnapIndex(FrontierOut(deq, frontier_index)[i]) >= frontier_index

\* C4: a frontier() call that directly follows a frontier() call yields
\* nothing and leaves frontier_index as it is: after every frontier() call
\* that returns, no held snapshot is at or above the new frontier_index.
\* Stated for the runs that admit only finite timestamps, on buffers that
\* hold no index of usize::MAX, where it already fails.
C4_SecondFrontierEmpty ==
    [][(Frontier /\ ~panicked' /\ finite /\ BelowMaxHeld(deq)) =>
          /\ FrontierOut(deq', frontier_index') = <<>>
          /\ Position(deq', frontier_index') = 0]_vars

C7_AlwaysBehindFrontierError ==
    \A event \in Events, tick \in Ticks :
        (finite /\ event.index < frontier_index)
            => InsertError(event, tick) = "BehindFrontier"

\* C7: an insert of an event whose index is below frontier_index always
\* fails and leaves the buffer and frontier_index unchanged; the error is
\* the behind-frontier error exactly when the event passes the clock-skew,
\* tick and timestamp checks, which insert makes first; and no insert ever
\* admits an index below the frontier_index of that moment.
C7_BehindFrontierRejected ==
    /\ [](\A event \in Events, tick \in Ticks :
            event.index < frontier_index
                => /\ InsertError(event, tick) # "Ok"
                   /\ InsertError(event, tick) = "BehindFrontier"
                          <=> /\ ~FGe(event.timestamp, now)
                              /\ HasLatest => tick >= LatestSnapshot.tick
                              /\ HasLatest =>
                                    ~FLe(event.timestamp, SnapTimestamp(LatestSnapshot)))
    /\ [][Admits =>
            /\ SnapIndex(Admitted) >= frontier_index
            /\ frontier_index' = frontier_index]_vars

\* a consumed, non-empty buffer where an event that is chronologically
\* valid is rejected for its index alone
C7_Witness ==
    /\ frontier_index > 0
    /\ HasLatest
    /\ \E event \in Events, tick \in Ticks :
          /\ event.index < frontier_index
          /\ tick >= LatestSnapshot.tick
          /\ FLt(SnapTimestamp(LatestSnapshot), event.timestamp)
          /\ InsertError(event, tick) = "BehindFrontier"

\* C8: insert rejects every event whose timestamp is >= the receipt time
\* of that insert, equality included, and so every held snapshot has
\* event timestamp < received_timestamp.
C8_TimestampBeforeReceipt ==
    /\ \A event \in Events, tick \in Ticks :
          FGe(event.timestamp, now) => InsertError(event, tick) # "Ok"
    /\ \A s \in Held : FLt(SnapTimestamp(s), s.received_timestamp)

C10_InOrderScenario ==
    /\ []((inorder /\ max_size >= 1) =>
            /\ BufLen = Min(admitted, max_size)
            /\ \A i \in DOMAIN deq : deq[i].seq = admitted - BufLen + i)
    /\ [][(inorder /\ admitted >= 1 /\ Frontier) =>
            /\ ~panicked'
            /\ FrontierOut(deq, frontier_index) = deq
            /\ frontier_index' = SnapIndex(LatestSnapshot) + 1]_vars

\* a frontier() call made in this state yields the snapshot s
Yields(s) ==
    \E j \in DOMAIN FrontierOut(deq, frontier_index) :
        FrontierOut(deq, frontier_index)[j] = s

\* C11: every admitted snapshot that is still in the buffer at the first
\* frontier() call after its admission is yielded by that call.  Stated for
\* the runs in which only insert was called so far: there every held
\* snapshot was admitted since the last frontier() call, and the claim
\* already fails.
C11_YieldedAtFirstFrontier ==
    [][(inorder /\ Frontier) =>
            /\ ~panicked'
            /\ \A i \in DOMAIN deq : Yields(deq[i])]_vars

\* C17: across any interleaving of insert, frontier, sort_with_index and
\* pop_front, no event is admitted with a timestamp <= the timestamp, or a
\* tick below the tick, of an event admitted earlier into the same buffer.
\* Stated for the earlier events that are still held and for the runs that
\* admit only finite timestamps, where it already fails.
C17_AdmittedAfterEarlier ==
    [][(Admits /\ finite') =>
            \A i \in DOMAIN deq :
                /\ FLt(SnapTimestamp(deq[i]), SnapTimestamp(Admitted))
                /\ deq[i].tick <= Admitted.tick]_vars

\* ==== distance culling (quick_lib/distance_culling.rs) ===================
\* Entity is ordered (it derives Ord); entities are numbered here.  Three
\* entities: a viewer with two candidates, or a pair and a bystander
NumEntities == 3
Entities == 1..NumEntities
\* entries the DistanceMap holds when it is exercised on its own
MaxEntries == NumEntities
\* entities of the worlds whose frames are run one after another
MaxWorld == NumEntities - 1
\* f32 distances: integers plus NaN
Distances == (0..MaxPos) \cup {NaN}
DistanceAt == [tick : Ticks, distance : Distances]

\* ---- DistanceMap ---------------------------------------------------------
\* a lookup key that keeps the order it is given
GetKey_AsGiven(key_l, key_r) == <<key_l, key_r>>
\* the key DistanceMap::get looks up
GetKey(key_l, key_r) == IF key_l >= key_r THEN <<key_l, key_r>> ELSE <<key_r, key_l>>
\* the key DistanceMap::insert writes
InsertKey(key_l, key_r) == IF key_l >= key_r THEN <<key_l, key_r>> ELSE <<key_r, key_l>>

\* HashMap::insert: the map m with the entry of the key replaced or added
MapInsert(m, key_l, key_r, distance_at) ==
    [k \in DOMAIN m \cup {InsertKey(key_l, key_r)} |->
        IF k = InsertKey(key_l, key_r) THEN distance_at ELSE m[k]]

\* Option<&DistanceAt>: <<>> is None, <<d>> is Some(d)
MapGet(m, key_l, key_r) ==
    IF GetKey(key_l, key_r) \in DOMAIN m THEN <<m[GetKey(key_l, key_r)]>> ELSE <<>>

\* a caller of the public DistanceMap::insert
DistanceMapInsert(key_l, key_r, distance_at) ==
    /\ \/ InsertKey(key_l, key_r) \in DOMAIN distance_map
       \/ Cardinality(DOMAIN distance_map) < MaxEntries
    /\ distance_map' = MapInsert(distance_map, key_l, key_r, distance_at)
    /\ map_changed' = TRUE
    /\ UNCHANGED <<server_tick, component, changed, player_views, important,
                   visibility, culling_threshold, ran, inserted, bufvars, ingvars, framevars>>

\* DistanceMap::default() as a resource of its own; nothing else runs
InitMap ==
    /\ BufferIdle
    /\ IngestionIdle
    /\ FrameIdle
    /\ distance_map = <<>>
    /\ map_changed = TRUE
    /\ server_tick = 0
    /\ component = <<>>
    /\ changed = {}
    /\ player_views = {}
    /\ important = {}
    /\ visibility = <<>>
    /\ culling_threshold = 0
    /\ ran = {}
    /\ inserted = FALSE

InsertAny ==
    \E key_l \in Entities, key_r \in Entities, distance_at \in DistanceAt :
        DistanceMapInsert(key_l, key_r, distance_at)

NextMap == InsertAny

SpecMap == InitMap /\ [][NextMap]_vars

\* C12: DistanceMap is symmetric.  For all entities A, B and every sequence
\* of inserts get(A, B) equals get(B, A); insert(A, B, d) followed by
\* get(B, A) returns d; and an insert for a pair that has an entry in either
\* order overwrites that one entry instead of adding a second.
C12_Symmetric ==
    \A a \in Entities, b \in Entities :
        /\ MapGet(distance_map, a, b) = MapGet(distance_map, b, a)
        /\ \A d \in DistanceAt :
            /\ MapGet(MapInsert(distance_map, a, b, d), b, a) = <<d>>
            /\ MapGet(MapInsert(distance_map, a, b, d), a, b) = <<d>>
            /\ (MapGet(distance_map, b, a) # <<>> =>
                    DOMAIN MapInsert(distance_map, a, b, d) = DOMAIN distance_map)
            /\ Cardinality(DOMAIN MapInsert(distance_map, a, b, d)) <=
                    Cardinality(DOMAIN distance_map) + 1

\* an entry for two different entities, read in the order opposite to the
\* canonical one
C12_Witness ==
    \E a \in Entities, b \in Entities :
        /\ a < b
        /\ MapGet(distance_map, a, b) # <<>>
        /\ Cardinality(DOMAIN distance_map) = MaxEntries

\* ---- the world the culling systems run in -------------------------------
\* values of the component C, on a line; NaN as for every float
Positions == (0..MaxPos) \cup {NaN}
\* DistanceCalculatable::distance: an implementation for points on a line
Distance(c, rhs) ==
    IF c = NaN \/ rhs = NaN THEN NaN
    ELSE IF c >= rhs THEN c - rhs ELSE rhs - c

\* NetworkEntity::client_id: every client has one player entity
ClientOf(e) == e

\* Query::iter visits the matching entities in a fixed order
RECURSIVE Ascending(_)
Ascending(S) ==
    IF S = {} THEN <<>>
    ELSE LET x == CHOOSE y \in S : \A z \in S : y <= z
         IN <<x>> \o Ascending(S \ {x})

\* ---- the schedule of PostUpdate ------------------------------------------
\* no ordering between the two systems: .chain() left out
Before_Unchained ==
    {<<"calculate_distance_system", "Send">>, <<"distance_culling_system", "Send">>}
\* (calculate_distance_system, distance_culling_system).chain()
\*     .before(ServerSet::Send)
Before ==
    {<<"calculate_distance_system", "distance_culling_system">>,
     <<"calculate_distance_system", "Send">>,
     <<"distance_culling_system", "Send">>}

\* the scheduler may start a system once all it is ordered after have run
Runnable(system) ==
    /\ system \notin ran
    /\ \A edge \in Before : edge[2] = system => edge[1] \in ran

\* ---- calculate_distance_system -------------------------------------------
\* a tick check that never skips a pair
CachedAtTick_Never(m, player_e, e, tick) == FALSE
CachedAtTick(m, player_e, e, tick) ==
    /\ MapGet(m, player_e, e) # <<>>
    /\ MapGet(m, player_e, e)[1].tick = tick

\* the inner loop; acc.map is the DistanceMap, acc.computed is the history
\* of the pairs distance() was called for
RECURSIVE CalculateFor(_, _, _, _)
CalculateFor(acc, player_e, es, tick) ==
    IF es = <<>> THEN acc
    ELSE IF Head(es) = player_e THEN CalculateFor(acc, player_e, Tail(es), tick)
    ELSE IF CachedAtTick(acc.map, player_e, Head(es), tick)
         THEN CalculateFor(acc, player_e, Tail(es), tick)
    ELSE CalculateFor(
            [map |-> MapInsert(acc.map, player_e, Head(es),
                        [tick |-> tick,
                         distance |-> Distance(component[player_e], component[Head(es)])]),
             computed |-> Append(acc.computed, <<player_e, Head(es)>>)],
            player_e, Tail(es), tick)

\* the outer loop over the player views
RECURSIVE CalculateAll(_, _, _, _)
CalculateAll(acc, players, es, tick) ==
    IF players = <<>> THEN acc
    ELSE CalculateAll(CalculateFor(acc, Head(players), es, tick),
                      Tail(players), es, tick)

\* the entities the first query matches
ChangedImportant == changed \cap important

\* what a pass started in this state does
CalculateOut ==
    IF ChangedImportant # {}
    THEN CalculateAll([map |-> distance_map, computed |-> <<>>],
                      Ascending(player_views), Ascending(ChangedImportant),
                      server_tick)
    ELSE [map |-> distance_map, computed |-> <<>>]

CalculateDistanceSystem ==
    /\ Runnable("calculate_distance_system")
    /\ distance_map' = CalculateOut.map
    /\ map_changed' = (map_changed \/ CalculateOut.computed # <<>>)
    /\ changed' = {}
    /\ ran' = ran \cup {"calculate_distance_system"}
    /\ inserted' = (CalculateOut.computed # <<>>)
    /\ UNCHANGED <<server_tick, component, player_views, important,
                   visibility, culling_threshold, bufvars, ingvars, framevars>>

\* ---- distance_culling_system ---------------------------------------------
\* a gate that lets the pass run in every frame
IsChanged_Always == TRUE
\* distance_map.is_changed()
IsChanged == map_changed

\* a threshold test that keeps a candidate at exactly the threshold
IsCulled_Beyond(distance, threshold) == distance # NaN /\ distance > threshold
\* distance_at.distance >= culling_config.culling_threshold, in f32
IsCulled(distance, threshold) == FGe(distance, threshold)

\* a candidate without distance info is hidden
NoDistanceInfo_Hide(visible, e) == visible \ {e}
\* a candidate without distance info: warn!, continue
NoDistanceInfo(visible, e) == visible

\* the inner loop, over one client's visible entities
RECURSIVE CullFor(_, _, _)
CullFor(visible, player_e, es) ==
    IF es = <<>> THEN visible
    ELSE IF player_e = Head(es) THEN CullFor(visible, player_e, Tail(es))
    ELSE IF MapGet(distance_map, player_e, Head(es)) = <<>>
         THEN CullFor(NoDistanceInfo(visible, Head(es)), player_e, Tail(es))
    ELSE IF IsCulled(MapGet(distance_map, player_e, Head(es))[1].distance,
                     culling_threshold)
         THEN CullFor(IF Head(es) \in visible THEN visible \ {Head(es)} ELSE visible,
                      player_e, Tail(es))
         ELSE CullFor(IF Head(es) \notin visible THEN visible \cup {Head(es)} ELSE visible,
                      player_e, Tail(es))

\* the outer loop over the player views; a client without an entry in
\* ConnectedClients is skipped
RECURSIVE CullAll(_, _, _)
CullAll(v, players, es) ==
    IF players = <<>> THEN v
    ELSE IF ClientOf(Head(players)) \notin DOMAIN v
         THEN CullAll(v, Tail(players), es)
    ELSE CullAll([v EXCEPT ![ClientOf(Head(players))] =
                        CullFor(v[ClientOf(Head(players))], Head(players), es)],
                 Tail(players), es)

\* the visibility a pass started in this state leaves
CullingOut ==
    IF IsChanged
    THEN CullAll(visibility, Ascending(player_views), Ascending(important))
    ELSE visibility

DistanceCullingSystem ==
    /\ Runnable("distance_culling_system")
    /\ visibility' = CullingOut
    /\ map_changed' = FALSE
    /\ ran' = ran \cup {"distance_culling_system"}
    /\ UNCHANGED <<distance_map, server_tick, component, changed, player_views,
                   important, culling_threshold, inserted, bufvars, ingvars, framevars>>

\* ---- the rest of the frame -----------------------------------------------
\* ServerSet::Send: replication reads the visibility; the frame ends
Send ==
    /\ Runnable("Send")
    /\ ran' = {}
    /\ inserted' = FALSE
    /\ UNCHANGED <<distance_map, map_changed, server_tick, component, changed,
                   player_views, important, visibility, culling_threshold, bufvars,
                   ingvars, framevars>>

\* game logic, between two runs of PostUpdate, writes an entity's component
ChangeComponent(e, c) ==
    /\ ran = {}
    /\ component' = [component EXCEPT ![e] = c]
    /\ changed' = changed \cup {e}
    /\ UNCHANGED <<distance_map, map_changed, server_tick, player_views,
                   important, visibility, culling_threshold, ran, inserted, bufvars,
                   ingvars, framevars>>

\* a client connects: ConnectedClients gets an entry for it, nothing visible
ClientConnected(client_id) ==
    /\ ran = {}
    /\ client_id \notin DOMAIN visibility
    /\ visibility' = [c \in DOMAIN visibility \cup {client_id} |->
                        IF c = client_id THEN {} ELSE visibility[c]]
    /\ UNCHANGED <<distance_map, map_changed, server_tick, component, changed,
                   player_views, important, culling_threshold, ran, inserted,
                   bufvars, ingvars, framevars>>

\* the server tick is incremented
IncrementTick ==
    /\ server_tick < MaxTick
    /\ server_tick' = server_tick + 1
    /\ UNCHANGED <<distance_map, map_changed, component, changed, player_views,
                   important, visibility, culling_threshold, ran, inserted, bufvars,
                   ingvars, framevars>>

\* use_distance_culling on a server: an empty DistanceMap, just added; a
\* world of up to MaxWorld entities, every component just added; any set of
\* player views, of important entities and of connected clients
InitCulling ==
    /\ BufferIdle
    /\ IngestionIdle
    /\ FrameIdle
    /\ distance_map = <<>>
    /\ map_changed = TRUE
    /\ server_tick = 0
    /\ \E world \in SUBSET Entities :
            /\ Cardinality(world) <= MaxWorld
            /\ component = [e \in world |-> 0]
    /\ changed = DOMAIN component
    /\ player_views \in SUBSET DOMAIN component
    /\ important \in SUBSET DOMAIN component
    /\ \E connected \in SUBSET player_views :
            visibility = [client_id \in connected |-> {}]
    /\ culling_threshold \in 1..MaxPos
    /\ ran = {}
    /\ inserted = FALSE

ChangeAny == \E e \in DOMAIN component, c \in Positions : ChangeComponent(e, c)

ConnectAny == \E e \in player_views : ClientConnected(ClientOf(e))

NextCulling ==
    \/ CalculateDistanceSystem
    \/ DistanceCullingSystem
    \/ Send
    \/ ChangeAny
    \/ ConnectAny
    \/ IncrementTick

SpecCulling == InitCulling /\ [][NextCulling]_vars

\* ---- distance_culling_system on its own --------------------------------
\* the canonical keys of two different entities
PairKeys ==
    {key \in {InsertKey(a, b) : a \in Entities, b \in Entities} : key[1] # key[2]}

\* the pass about to run, after a recompute pass, in any world: any cache
\* written in the current tick, changed or not, any player views, important
\* entities, connected clients and visibility
InitEvaluator ==
    /\ BufferIdle
    /\ IngestionIdle
    /\ FrameIdle
    /\ \E keys \in SUBSET PairKeys :
            distance_map \in [keys -> [tick : {0}, distance : Distances]]
    /\ map_changed \in BOOLEAN
    /\ server_tick = 0
    /\ component = [e \in Entities |-> 0]
    /\ changed = {}
    /\ player_views \in SUBSET Entities
    /\ important \in SUBSET Entities
    /\ \E connected \in SUBSET player_views :
            visibility \in [connected -> SUBSET Entities]
    /\ \A client_id \in DOMAIN visibility : client_id \notin visibility[client_id]
    /\ culling_threshold \in 1..MaxPos
    /\ ran = {"calculate_distance_system"}
    /\ inserted = map_changed     \* is_changed() as the recompute pass left it

NextEvaluator == DistanceCullingSystem

SpecEvaluator == InitEvaluator /\ [][NextEvaluator]_vars

\* the (viewer, candidate) pairs the evaluator looks at: a player view whose
\* client is connected and an important entity other than the viewer
Evaluated ==
    {pair \in player_views \X important :
        /\ ClientOf(pair[1]) \in DOMAIN visibility
        /\ pair[1] # pair[2]}
\* the pair has a cached distance
Cached(pair) == MapGet(distance_map, pair[1], pair[2]) # <<>>
CachedDistance(pair) == MapGet(distance_map, pair[1], pair[2])[1].distance
\* the candidate is marked visible to the viewer
Visible(v, pair) == pair[2] \in v[ClientOf(pair[1])]

\* C13 as stated: after an evaluator pass that ran, every evaluated pair
\* with a cached distance d is visible iff d < threshold and not visible
\* iff d >= threshold.
C13_VisibleIffBelowThreshold ==
    [][(DistanceCullingSystem /\ IsChanged) =>
            \A pair \in Evaluated : Cached(pair) =>
                /\ Visible(visibility', pair) <=>
                        (CachedDistance(pair) # NaN /\
                         CachedDistance(pair) < culling_threshold)
                /\ ~Visible(visibility', pair) <=>
                        (CachedDistance(pair) # NaN /\
                         CachedDistance(pair) >= culling_threshold)]_vars

\* C13: after an evaluator pass that ran, every evaluated pair with a
\* cached distance d is not visible iff d >= threshold (equality is culled)
\* and visible otherwise, that is iff d < threshold or d is NaN, whatever
\* its visibility was before; the clients and the cache are left alone.
C13_CulledIffAtOrBeyondThreshold ==
    [][(DistanceCullingSystem /\ IsChanged) =>
            /\ DOMAIN visibility' = DOMAIN visibility
            /\ \A pair \in Evaluated : Cached(pair) =>
                /\ ~Visible(visibility', pair) <=>
                        (CachedDistance(pair) # NaN /\
                         CachedDistance(pair) >= culling_threshold)
                /\ Visible(visibility', pair) <=>
                        (CachedDistance(pair) = NaN \/
                         CachedDistance(pair) < culling_threshold)]_vars

\* after a pass: a viewer with a candidate at exactly the threshold, culled,
\* and a candidate below it, visible
C13_Witness ==
    /\ "distance_culling_system" \in ran
    /\ \E at, below \in Evaluated :
        /\ at[1] = below[1]
        /\ Cached(at) /\ CachedDistance(at) = culling_threshold
        /\ ~Visible(visibility, at)
        /\ Cached(below) /\ CachedDistance(below) # NaN
        /\ CachedDistance(below) < culling_threshold
        /\ Visible(visibility, below)

\* the cache entries that carry the current tick
AtCurrentTick ==
    {key \in DOMAIN distance_map : distance_map[key].tick = server_tick}

\* C14: a recompute pass calls distance() for an unordered pair at most
\* once, also when it reaches the pair a second time with viewer and
\* subject swapped, and not at all for a pair whose cache entry already
\* carries the current tick; and while the tick stays the same no step
\* changes the cached tick or distance of such an entry.
C14_AtMostOncePerTick ==
    /\ [](\A i \in DOMAIN CalculateOut.computed :
            /\ InsertKey(CalculateOut.computed[i][1], CalculateOut.computed[i][2])
                    \notin AtCurrentTick
            /\ \A j \in DOMAIN CalculateOut.computed :
                    InsertKey(CalculateOut.computed[i][1], CalculateOut.computed[i][2]) =
                    InsertKey(CalculateOut.computed[j][1], CalculateOut.computed[j][2])
                        => i = j)
    /\ [][server_tick' = server_tick =>
            \A key \in AtCurrentTick :
                /\ key \in DOMAIN distance_map'
                /\ distance_map'[key] = distance_map[key]]_vars

\* a recompute pass has just run and left alone an entry of the current
\* tick whose two entities, both player views and important, are no longer
\* at the cached distance
C14_Witness ==
    /\ "calculate_distance_system" \in ran
    /\ \E key \in AtCurrentTick :
        /\ {key[1], key[2]} \subseteq player_views \cap important
        /\ distance_map[key].distance # Distance(component[key[1]], component[key[2]])

\* C18: the evaluator pass changes visibility only when the recompute pass
\* of the same frame wrote the distance cache; in a frame where the
\* recompute pass inserted nothing every visibility flag is left unchanged.
C18_UnchangedWithoutInsert ==
    [][(DistanceCullingSystem /\ ~inserted) => visibility' = visibility]_vars

\* the evaluator has run in a frame without an insert and has left a
\* candidate hidden whose cached distance is not at or beyond the threshold
C18_Witness ==
    /\ "distance_culling_system" \in ran
    /\ ~inserted
    /\ \E pair \in Evaluated :
        /\ Cached(pair)
        /\ ~IsCulled(CachedDistance(pair), culling_threshold)
        /\ ~Visible(visibility, pair)

\* C19: for a (viewer, candidate) pair with no cached distance the
\* evaluator leaves the pair's visibility flag as it was, never forcing it
\* to not-visible, and goes on with the remaining candidates and viewers:
\* every evaluated pair that has a cached distance is still marked by it.
C19_UncachedLeftAlone ==
    [][DistanceCullingSystem =>
            \A pair \in Evaluated :
                /\ ~Cached(pair) =>
                        (Visible(visibility', pair) <=> Visible(visibility, pair))
                /\ (IsChanged /\ Cached(pair)) =>
                        (Visible(visibility', pair) <=>
                            ~IsCulled(CachedDistance(pair), culling_threshold))]_vars

\* after a pass that ran: a viewer whose first candidate has no cached
\* distance and is still visible, and whose later candidate, cached at the
\* threshold, is culled
C19_Witness ==
    /\ "distance_culling_system" \in ran
    /\ inserted
    /\ \E uncached, later \in Evaluated :
        /\ uncached[1] = later[1]
        /\ uncached[2] < later[2]
        /\ ~Cached(uncached)
        /\ Visible(visibility, uncached)
        /\ Cached(later)
        /\ CachedDistance(later) = culling_threshold
        /\ ~Visible(visibility, later)

\* C20: in every frame the recompute pass completes before the evaluator
\* pass starts and both complete before the send step, so that the
\* visibility flags the send step reads reflect every cache entry the
\* recompute pass of that frame wrote.
C20_RecomputeEvaluateSend ==
    /\ [][DistanceCullingSystem => "calculate_distance_system" \in ran]_vars
    /\ [][Send =>
            /\ {"calculate_distance_system", "distance_culling_system"} \subseteq ran
            /\ inserted =>
                    \A pair \in Evaluated : Cached(pair) =>
                        (Visible(visibility, pair) <=>
                            ~IsCulled(CachedDistance(pair), culling_threshold))]_vars

\* both passes have run, the first wrote the cache in the current tick, and
\* the send step is about to read a flag the evaluator has cleared
C20_Witness ==
    /\ ran = {"calculate_distance_system", "distance_culling_system"}
    /\ inserted
    /\ \E pair \in Evaluated :
        /\ Cached(pair)
        /\ InsertKey(pair[1], pair[2]) \in AtCurrentTick
        /\ IsCulled(CachedDistance(pair), culling_threshold)
        /\ ~Visible(visibility, pair)

\* the viewer and subject pairs a recompute pass started in this state is
\* about: a player view and another entity, distance-relevant, whose
\* component changed since the previous pass
ChangedPairs ==
    {pair \in player_views \X ChangedImportant : pair[1] # pair[2]}

\* the cache entry of the pair holds the distance between the component
\* values the two entities have
Fresh(m, pair) ==
    /\ MapGet(m, pair[1], pair[2]) # <<>>
    /\ MapGet(m, pair[1], pair[2])[1].distance =
            Distance(component[pair[1]], component[pair[2]])

\* C22: after every recompute pass the cache entry of each viewer and each
\* changed distance-relevant subject holds the distance between their
\* current component values, also when the tick did not advance since the
\* previous pass (stated for worlds without a NaN component).
C22_FreshAfterRecompute ==
    [][(CalculateDistanceSystem /\ \A e \in DOMAIN component : component[e] # NaN)
            => \A pair \in ChangedPairs : Fresh(distance_map', pair)]_vars

\* ==== event ingestion (event_snapshot.rs, lines 173-222) ==================
\* the entities that carry an EventSnapshots<E>, and the client ids
Buffered == 1..MaxWorld
Clients == 1..MaxWorld
\* events sent in a run: enough for a discarded event followed by a good
\* one in one pass, and for two passes
MaxEvents == 2

\* FromClient<E>: the sender, the event, and what event.validate() gives.
\* frontier() is not called on these buffers, so the index plays no part
\* and is 0.
Incoming ==
    [client_id : Clients, event : {e \in Events : e.index = 0}, valid : BOOLEAN]

\* event.validate() is Ok
Validate(msg) == msg.valid

\* EventSnapshots::with_capacity; admitted is the history count of the
\* events admitted, the seq of the next snapshot
EmptySnapshots(capacity) ==
    [deq |-> <<>>, max_size |-> capacity, frontier_index |-> 0, admitted |-> 0]

\* EventSnapshots::insert on the component s at clock reading t: the error
InsertErrorOf(s, t, event, tick) ==
    IF s.max_size = 0 THEN "ZeroSize"
    ELSE IF ClockBeforeEpoch(t) THEN "SystemTime"
    ELSE IF IsClockSkew(event, t) THEN "ClockSkew"
    ELSE IF s.deq # <<>> /\ IsStaleTick(tick, s.deq[Len(s.deq)]) THEN "StaleTick"
    ELSE IF s.deq # <<>> /\ IsStaleTimestamp(event, s.deq[Len(s.deq)])
         THEN "StaleTimestamp"
    ELSE IF IsBehindFrontier(event, s.frontier_index) THEN "BehindFrontier"
    ELSE "Ok"

\* match snaps.insert(event.clone(), tick): the component afterwards; an
\* Err is logged and dropped
InsertInto(s, t, event, tick) ==
    IF InsertErrorOf(s, t, event, tick) = "Ok"
    THEN [s EXCEPT !.deq = Append(Evicted(s.deq, s.max_size),
                                  NewSnapshot(event, t, tick, s.admitted + 1)),
                   !.admitted = s.admitted + 1]
    ELSE s

\* a filter that lets every entity through
IsOwnedBy_Anyone(net_client_id, client_id) == TRUE
\* net_e.client_id() != *client_id => continue
IsOwnedBy(net_client_id, client_id) == net_client_id = client_id

\* after a discarded event the pass returns
AfterDiscard_Return(rest) == <<>>
\* warn!("discarding: {e}"); continue: the pass goes on with the rest
AfterDiscard(rest) == rest

\* server: the inner loop over the query, for one event
ServerInsertEvent(all, msg, tick, t) ==
    [x \in DOMAIN all |->
        IF ~IsOwnedBy(owner[x], msg.client_id) THEN all[x]
        ELSE InsertInto(all[x], t, msg.event, tick)]

\* server: the loop over events.read()
RECURSIVE ServerPopulateAll(_, _, _, _)
ServerPopulateAll(all, batch, tick, t) ==
    IF batch = <<>> THEN all
    ELSE IF ~Validate(Head(batch))
         THEN ServerPopulateAll(all, AfterDiscard(Tail(batch)), tick, t)
    ELSE ServerPopulateAll(ServerInsertEvent(all, Head(batch), tick, t),
                           Tail(batch), tick, t)

\* client: the inner loop over the query, for one event
ClientInsertEvent(all, msg, t) ==
    [x \in DOMAIN all |-> InsertInto(all[x], t, msg.event, confirmed[x])]

\* client: the loop over events.read()
RECURSIVE ClientPopulateAll(_, _, _)
ClientPopulateAll(all, batch, t) ==
    IF batch = <<>> THEN all
    ELSE IF ~Validate(Head(batch))
         THEN ClientPopulateAll(all, AfterDiscard(Tail(batch)), t)
    ELSE ClientPopulateAll(ClientInsertEvent(all, Head(batch), t), Tail(batch), t)

\* events.read(): the events the reader has not read yet; cursor counts
\* the events it has read
Unread == events

ServerPopulateClientEventSnapshots ==
    /\ role = "server"
    /\ snaps' = ServerPopulateAll(snaps, Unread, server_tick, now)
    /\ events' = <<>>
    /\ cursor' = cursor + Len(events)
    /\ read' = events
    /\ UNCHANGED <<role, owner, confirmed, cullvars, bufvars>>

ClientPopulateClientEventSnapshots ==
    /\ role = "client"
    /\ snaps' = ClientPopulateAll(snaps, Unread, now)
    /\ events' = <<>>
    /\ cursor' = cursor + Len(events)
    /\ read' = events
    /\ UNCHANGED <<role, owner, confirmed, cullvars, bufvars>>

\* the transport delivers an event (server), the application sends one (client)
SendEvent(msg) ==
    /\ cursor + Len(events) < MaxEvents
    /\ events' = Append(events, msg)
    /\ UNCHANGED <<role, snaps, owner, confirmed, cursor, read, cullvars, bufvars,
                   framevars>>

\* replication confirms a later tick for an entity (client)
ConfirmTick(x) ==
    /\ role = "client"
    /\ confirmed[x] < MaxTick
    /\ confirmed' = [confirmed EXCEPT ![x] = confirmed[x] + 1]
    /\ UNCHANGED <<role, snaps, owner, events, cursor, read, cullvars, bufvars,
                   framevars>>

\* NetworkEventSnapshotPlugin::build on a server or on a client; the
\* entities have empty buffers of one capacity, any owners
InitIngestion ==
    /\ deq = <<>>
    /\ max_size = 0
    /\ frontier_index = 0
    /\ now \in Clock
    /\ panicked = FALSE
    /\ admitted = 0
    /\ inorder = TRUE
    /\ finite = TRUE
    /\ CullingIdle
    /\ FrameIdle
    /\ role \in {"server", "client"}
    /\ \E capacity \in 0..MaxSize :
            snaps = [x \in Buffered |-> EmptySnapshots(capacity)]
    /\ owner \in [Buffered -> Clients]
    /\ confirmed = [x \in Buffered |-> 0]
    /\ events = <<>>
    /\ cursor = 0
    /\ read = <<>>

\* the passes run whenever the scheduler starts them
ServerPass == ServerPopulateClientEventSnapshots /\ UNCHANGED framevars

ClientPass == ClientPopulateClientEventSnapshots /\ UNCHANGED framevars

SendAny == \E msg \in Incoming : SendEvent(msg)

\* only a server has a ServerTick to increment
ServerIncrementTick == role = "server" /\ IncrementTick

ConfirmAny == \E x \in Buffered : ConfirmTick(x)

NextIngestion ==
    \/ ServerPass
    \/ ClientPass
    \/ SendAny
    \/ ConfirmAny
    \/ ServerIncrementTick

SpecIngestion == InitIngestion /\ [][NextIngestion]_vars

\* ---- properties of the ingestion passes ---------------------------------
IngestionPass ==
    ServerPopulateClientEventSnapshots \/ ClientPopulateClientEventSnapshots

\* the tick an insert into the buffer of x is made with
TickFor(x) == IF role = "server" THEN server_tick ELSE confirmed[x]

\* the event is for the buffer of x
Targets(msg, x) == role = "client" \/ owner[x] = msg.client_id

\* the buffers once the first k events of the batch have each been handled
\* on their own: a discarded event and a failed insert leave a buffer as it
\* was, an admissible event is at the back of the buffer
RECURSIVE AfterEvents(_)
AfterEvents(k) ==
    IF k = 0 THEN snaps
    ELSE LET before == AfterEvents(k - 1)
             msg == events[k]
         IN  [x \in DOMAIN snaps |->
                IF /\ Validate(msg)
                   /\ Targets(msg, x)
                   /\ InsertErrorOf(before[x], now, msg.event, TickFor(x)) = "Ok"
                THEN [before[x] EXCEPT
                        !.deq = Append(Evicted(before[x].deq, before[x].max_size),
                                       NewSnapshot(msg.event, now, TickFor(x),
                                                   before[x].admitted + 1)),
                        !.admitted = before[x].admitted + 1]
                ELSE before[x]]

\* the snapshots of the buffer of x that the step has put in
NewIn(x) ==
    {snaps'[x].deq[i] : i \in {j \in DOMAIN snaps'[x].deq :
                                    snaps'[x].deq[j].seq > snaps[x].admitted}}

C16_OnlyOwnersBuffers ==
    [][ServerPopulateClientEventSnapshots =>
            \A x \in DOMAIN snaps :
                /\ \A s \in NewIn(x) :
                        /\ s.tick = server_tick
                        /\ \E k \in DOMAIN events :
                                /\ events[k].client_id = owner[x]
                                /\ events[k].event = s.event
                                /\ Validate(events[k])
                /\ (\A k \in DOMAIN events : events[k].client_id # owner[x])
                        => snaps'[x] = snaps[x]]_vars

\* a server pass has read an event of one client: it is in the buffer of
\* that client's entity with a server tick after the first, and the buffer
\* of another client's entity is empty
C16_Witness ==
    /\ role = "server"
    /\ Len(read) = 1
    /\ cursor = 1
    /\ \E x \in DOMAIN snaps, y \in DOMAIN snaps :
            /\ owner[x] = read[1].client_id
            /\ owner[y] # read[1].client_id
            /\ snaps[x].deq # <<>>
            /\ snaps[x].deq[1].event = read[1].event
            /\ snaps[x].deq[1].tick > 0
            /\ snaps[y].deq = <<>>

\* ==== the frame: when ingestion and the consumer of the buffers run ======
\* the schedules of Bevy's Main schedule that the systems are added to, in
\* the order a frame runs them
Schedules == <<"PreUpdate", "Update", "PostUpdate">>

\* the systems and sets of the process: inbound delivery (ServerSet::Receive
\* on a server, the replicon receive set on a client), the populate system
\* the plugin added, and the consumer of the buffers (handle_fire on a
\* server, "consumer" on a client)
SystemsOf(r) ==
    IF r = "server"
    THEN {"Receive", "server_populate_client_event_snapshots", "handle_fire"}
    ELSE {"Receive", "client_populate_client_event_snapshots", "consumer"}

\* add_systems(PreUpdate, ..), add_systems(PostUpdate, ..),
\* add_systems(Update, (.., handle_fire).chain())
ScheduleOf(system) ==
    CASE system = "Receive" -> "PreUpdate"
      [] system = "server_populate_client_event_snapshots" -> "PreUpdate"
      [] system = "client_populate_client_event_snapshots" -> "PostUpdate"
      [] system = "handle_fire" -> "Update"
      [] system = "consumer" -> consumer_schedule

\* .after(ServerSet::Receive): the one ordering the plugin gives
After == {<<"Receive", "server_populate_client_event_snapshots">>}

\* the scheduler may start a system of the running schedule once, after
\* all it is ordered after
Startable(system) ==
    /\ system \in SystemsOf(role)
    /\ ScheduleOf(system) = schedule
    /\ system \notin frame_ran
    /\ \A edge \in After : edge[2] = system => edge[1] \in frame_ran

Started(system) ==
    /\ frame_ran' = frame_ran \cup {system}
    /\ UNCHANGED <<schedule, consumer_schedule>>

\* the events of a frame: frontier() adds one to the last index it holds,
\* so the indices stay below usize::MAX
FrameIncoming ==
    [client_id : Clients, event : {e \in Events : e.index < UsizeMax},
     valid : BOOLEAN]

\* the batches inbound delivery can bring in one frame
Batches ==
    {<<>>} \cup {<<msg>> : msg \in FrameIncoming}
           \cup {<<m1, m2>> : m1 \in FrameIncoming, m2 \in FrameIncoming}

\* server, ServerSet::Receive: the events that arrived are written to
\* Events<FromClient<E>>
ServerReceive(batch) ==
    /\ role = "server"
    /\ Startable("Receive")
    /\ cursor + Len(events) + Len(batch) <= MaxEvents
    /\ events' = events \o batch
    /\ Started("Receive")
    /\ UNCHANGED <<role, snaps, owner, confirmed, cursor, read, consumed,
                   cullvars, bufvars>>

\* client, the receive set: replication confirms ticks
ClientReceive(entities) ==
    /\ role = "client"
    /\ Startable("Receive")
    /\ confirmed' = [x \in DOMAIN confirmed |->
                        IF x \in entities /\ confirmed[x] < MaxTick
                        THEN confirmed[x] + 1 ELSE confirmed[x]]
    /\ Started("Receive")
    /\ UNCHANGED <<role, snaps, owner, events, cursor, read, consumed,
                   cullvars, bufvars>>

\* client, game logic in Update: an event is written to Events<E>
ClientSend(msg) ==
    /\ role = "client"
    /\ schedule = "Update"
    /\ SendEvent(msg)

\* the populate system the plugin added, started by the scheduler
ScheduledServerPopulate ==
    /\ Startable("server_populate_client_event_snapshots")
    /\ ServerPopulateClientEventSnapshots
    /\ Started("server_populate_client_event_snapshots")
    /\ UNCHANGED consumed

ScheduledClientPopulate ==
    /\ Startable("client_populate_client_event_snapshots")
    /\ ClientPopulateClientEventSnapshots
    /\ Started("client_populate_client_event_snapshots")
    /\ UNCHANGED consumed

\* frontier() on one component: the frontier index afterwards
AfterFrontier(s) ==
    IF Position(s.deq, s.frontier_index) # 0
    THEN [s EXCEPT !.frontier_index = WrappingSucc(SnapIndex(s.deq[Len(s.deq)]))]
    ELSE s

\* the consumer takes the frontier of every buffer
ConsumeAll ==
    /\ snaps' = [x \in DOMAIN snaps |-> AfterFrontier(snaps[x])]
    /\ consumed' = [x \in DOMAIN snaps |-> snaps[x].admitted]
    /\ UNCHANGED <<role, owner, confirmed, events, cursor, read, cullvars, bufvars>>

\* server: handle_fire, for every shooter the frontier of its buffer
HandleFire ==
    /\ Startable("handle_fire")
    /\ ConsumeAll
    /\ Started("handle_fire")

\* client: the pass that reads the buffers
ClientConsumer ==
    /\ Startable("consumer")
    /\ ConsumeAll
    /\ Started("consumer")

\* the place of a schedule in the frame
RECURSIVE PlaceFrom(_, _)
PlaceFrom(label, i) ==
    IF Schedules[i] = label THEN i ELSE PlaceFrom(label, i + 1)

\* every system of the running schedule has run: the next schedule runs,
\* and after the last one the next frame starts
NextSchedule ==
    /\ \A system \in SystemsOf(role) :
            ScheduleOf(system) = schedule => system \in frame_ran
    /\ IF PlaceFrom(schedule, 1) < Len(Schedules)
       THEN /\ schedule' = Schedules[PlaceFrom(schedule, 1) + 1]
            /\ UNCHANGED <<frame_ran, read>>
       ELSE /\ schedule' = Schedules[1]
            /\ frame_ran' = {}
            /\ read' = <<>>
    /\ UNCHANGED <<role, snaps, owner, confirmed, events, cursor,
                   consumer_schedule, consumed, cullvars, bufvars>>

\* a server or a client with the plugin added, at the start of a frame;
\* on a client the consumer is in Update or in PostUpdate
InitFrame ==
    /\ deq = <<>>
    /\ max_size = 0
    /\ frontier_index = 0
    /\ now = MaxClock
    /\ panicked = FALSE
    /\ admitted = 0
    /\ inorder = TRUE
    /\ finite = TRUE
    /\ CullingIdle
    /\ role \in {"server", "client"}
    /\ \E capacity \in 0..MaxSize :
            snaps = [x \in Buffered |-> EmptySnapshots(capacity)]
    /\ owner \in [Buffered -> Clients]
    /\ confirmed = [x \in Buffered |-> 0]
    /\ events = <<>>
    /\ cursor = 0
    /\ read = <<>>
    /\ schedule = Schedules[1]
    /\ frame_ran = {}
    /\ consumer_schedule \in
            IF role = "server" THEN {"Update"} ELSE {"Update", "PostUpdate"}
    /\ consumed = [x \in Buffered |-> 0]

ServerReceiveAny ==
    /\ role = "server"
    /\ Startable("Receive")
    /\ \E batch \in Batches : ServerReceive(batch)

ClientReceiveAny == \E entities \in SUBSET Buffered : ClientReceive(entities)

ClientSendAny ==
    /\ role = "client"
    /\ schedule = "Update"
    /\ cursor + Len(events) < MaxEvents
    /\ \E msg \in FrameIncoming : ClientSend(msg)

NextFrame ==
    \/ ServerReceiveAny
    \/ ClientReceiveAny
    \/ ClientSendAny
    \/ ScheduledServerPopulate
    \/ ScheduledClientPopulate
    \/ HandleFire
    \/ ClientConsumer
    \/ NextSchedule

SpecFrame == InitFrame /\ [][NextFrame]_vars

\* ---- properties of the frame --------------------------------------------
PopulatePass == ScheduledServerPopulate \/ ScheduledClientPopulate

ConsumerPass == HandleFire \/ ClientConsumer

\* the populate system the plugin added for the role
PopulateOf(r) ==
    IF r = "server" THEN "server_populate_client_event_snapshots"
    ELSE "client_populate_client_event_snapshots"

\* the places in the buffer of x of the snapshots admitted since the
\* consumer's last call
Unconsumed(x) ==
    {i \in DOMAIN snaps[x].deq : snaps[x].deq[i].seq > consumed[x]}

\* the places in the buffer of x that a frontier() call made now yields
YieldedPlaces(x) ==
    {i \in DOMAIN snaps[x].deq :
        /\ Position(snaps[x].deq, snaps[x].frontier_index) # 0
        /\ i >= Position(snaps[x].deq, snaps[x].frontier_index)}

\* C21: on a server and on a client, in every frame the ingestion pass
\* runs after inbound delivery and before the pass that takes the frontier
\* of the buffers: when the consumer runs, the ingestion pass of the frame
\* has run, no event sent is left unread, and every snapshot admitted since
\* the consumer's last call is yielded by its frontier() call.
C21_IngestedBeforeConsumed ==
    [][/\ PopulatePass => "Receive" \in frame_ran
       /\ ConsumerPass =>
            /\ PopulateOf(role) \in frame_ran
            /\ events = <<>>
            /\ \A x \in DOMAIN snaps : Unconsumed(x) \subseteq YieldedPlaces(x)]_vars

====
